---- MODULE Spec2Model ----
(***************************************************************************)
(* Library checkout: the Book / Loan tables of library/models.py and the   *)
(* request handlers of library/views.py that change them.                  *)
(*                                                                         *)
(* The database is a row-locking, READ COMMITTED store: `books` and        *)
(* `loans` hold the committed rows; a request handler that runs inside     *)
(* transaction.atomic() keeps its writes private until its commit step,    *)
(* and select_for_update() blocks while another transaction holds the row. *)
(* Row locks are derived from the positions of the handlers (a handler     *)
(* holds the locks it has taken until it commits or rolls back).           *)
(***************************************************************************)
EXTENDS Integers, FiniteSets, TLC

\* ---------------------------------------------------------------- bounds
NumMembers == 1      \* non-staff users 1..NumMembers; user 0 is the staff user
MaxBooks   == 2      \* book primary keys handed out
MaxCopies  == 1      \* largest copy count a staff form submits
MaxLoans   == 2      \* loan primary keys handed out
NumProcs   == 2      \* request handlers running concurrently

StaffUser == 0
Users     == 0..NumMembers
Members   == 1..NumMembers
BookIds   == 1..MaxBooks
LoanIds   == 1..MaxLoans
Procs     == 1..NumProcs
Copies    == 0..MaxCopies

\* request.user of a request that carries no session: AnonymousUser
Anonymous  == -1
Actors     == Users \cup {Anonymous}
Methods    == {"GET", "POST"}
\* values a staff form may submit for a copy count, a negative one included
CopyInputs == -1..MaxCopies
\* ?status= of the staff loan list: the two filters, any other value, absent
Statuses   == {"active", "returned", "other", "missing"}

VARIABLES
    books,      \* committed Book rows: pk -> [live, total, avail]
    nextBook,   \* next Book primary key
    loans,      \* committed Loan rows: set of [id, member, book, is_active, returned_at]
    nextLoan,   \* next Loan primary key
    clock,      \* timezone.now(), a logical clock
    pc,         \* position of each request handler
    tx          \* the handler's request and the values it has read

vars == <<books, nextBook, loans, nextLoan, clock, pc, tx>>

\* ------------------------------------------------------------ data model
NoBook == [live |-> FALSE, total |-> 0, avail |-> 0]

\* the template context of a rendered page (rows are held by primary key)
NoPage == [books |-> {}, loans |-> {}, active_loans |-> {}, past_loans |-> {},
           has_active_loan |-> FALSE, can_checkout |-> FALSE]

NoTx == [op |-> "none", member |-> 0, book |-> 0, loan |-> 0, avail |-> 0,
         result |-> "none", page |-> NoPage]

\* returned_at = NULL
Null == 0

\* (faulty variant: returned_at stamped when the loan is created)
NewLoanStamped(id, m, b) ==
    [id |-> id, member |-> m, book |-> b, is_active |-> TRUE, returned_at |-> clock]

\* Loan(member=m, book=b): is_active defaults to True, returned_at to NULL.
NewLoan(id, m, b) ==
    [id |-> id, member |-> m, book |-> b, is_active |-> TRUE, returned_at |-> Null]

Pks(rows) == {l.id : l \in rows}

\* (faulty variant: the flag tested the wrong way round)
ActivePairFlipped(l, m, b) == l.member = m /\ l.book = b /\ ~l.is_active

\* A row of the partial unique index (member, book) WHERE is_active.
ActivePair(l, m, b) == l.member = m /\ l.book = b /\ l.is_active

\* (faulty variant: the pre-check never finds the loan)
HasActiveLoanNever(ls, m, b) == FALSE

\* Loan.objects.filter(member=member, book=book, is_active=True).exists()
HasActiveLoan(ls, m, b) == \E l \in ls : ActivePair(l, m, b)

\* (faulty variant: the unique index without its condition is_active = True)
UniqueViolationAnyRow(ls, m, b) == \E l \in ls : l.member = m /\ l.book = b

\* unique_active_loan_per_member_book would be violated by inserting (m, b).
UniqueViolation(ls, m, b) == \E l \in ls : ActivePair(l, m, b)

\* (faulty variant: the active-loan check never fires)
BookHasActiveLoansNever(ls, b) == FALSE

\* book.loans.filter(is_active=True).exists()
BookHasActiveLoans(ls, b) == \E l \in ls : l.book = b /\ l.is_active

\* ------------------------------------------------------------- row locks
BookLockPcs == {"co_write", "rt_write"}
LoanLockPcs == {"rt_lock_book", "rt_write"}

\* (faulty variant: a checkout counts as holding the row while it still waits)
HoldsBookWaiting(q, b) == pc[q] \in (BookLockPcs \cup {"co_lock"}) /\ tx[q].book = b

HoldsBook(q, b) == pc[q] \in BookLockPcs /\ tx[q].book = b
HoldsLoan(q, l) == pc[q] \in LoanLockPcs /\ tx[q].loan = l

\* (faulty variant: the book row is read without select_for_update())
BookLockFreeNoWait(p, b) == TRUE

\* (faulty variant: the loan row is read without select_for_update())
LoanLockFreeNoWait(p, l) == TRUE

\* select_for_update() on the book row: granted when no other transaction holds it.
BookLockFree(p, b) == \A q \in Procs \ {p} : ~HoldsBook(q, b)
LoanLockFree(p, l) == \A q \in Procs \ {p} : ~HoldsLoan(q, l)

\* ---------------------------------------------------------------- Init
Init ==
    /\ books = [b \in BookIds |-> NoBook]
    /\ nextBook = 1
    /\ loans = {}
    /\ nextLoan = 1
    /\ clock = 1
    /\ pc = [p \in Procs |-> "idle"]
    /\ tx = [p \in Procs |-> NoTx]

\* The handler leaves its transaction (commit or rollback: its locks are
\* released, its private values dropped), sends its response and is free
\* for the next request; tx[p].result keeps the response it sent last.
Done(p, result) ==
    /\ pc' = [pc EXCEPT ![p] = "idle"]
    /\ tx' = [tx EXCEPT ![p] = [NoTx EXCEPT !.result = result]]

Request(p, op, m, b, l) ==
    tx' = [tx EXCEPT ![p] = [op |-> op, member |-> m, book |-> b, loan |-> l,
                             avail |-> 0, result |-> "none", page |-> NoPage]]

\* render(request, template, context): the page is sent with status 200
Render(p, page) ==
    /\ pc' = [pc EXCEPT ![p] = "idle"]
    /\ tx' = [tx EXCEPT ![p] = [NoTx EXCEPT !.result = "ok", !.page = page]]

\* ---------------------------------------------------------- access control
IsAuthenticated(u) == u # Anonymous

\* (faulty variant: test_func lets every logged-in user through)
IsStaffAnyone(u) == TRUE

\* StaffRequiredMixin.test_func: request.user.is_staff
IsStaff(u) == u = StaffUser

\* @login_required: an anonymous request is redirected to LOGIN_URL
LoginRequired(u) == IF IsAuthenticated(u) THEN "granted" ELSE "login_redirect"

\* StaffRequiredMixin: LoginRequiredMixin.dispatch, then UserPassesTestMixin.dispatch
\* (handle_no_permission raises PermissionDenied for an authenticated user)
StaffRequired(u) ==
    IF ~IsAuthenticated(u) THEN "login_redirect"
    ELSE IF ~IsStaff(u) THEN "forbidden"
    ELSE "granted"

\* (faulty variant: the method is not looked at)
PostOnlyAnyMethod(method) == TRUE

\* request.method != 'POST' -> HttpResponseNotAllowed(['POST']); a View that
\* defines only post() answers every other method with 405
PostOnly(method) == method = "POST"

\* ------------------------------------------------------------- checkout
\* Checkouts that may still INSERT a loan (bounds the primary keys used).
OpenCheckouts == {q \in Procs : pc[q] \in {"co_lock", "co_write"}}

\* (faulty variant: < for <=)
NoCopiesStrict(a) == a < 0

\* (faulty variant: the count is not looked at)
NoCopiesNever(a) == FALSE

\* book.available_copies <= 0
NoCopies(a) == a <= 0

\* (faulty variant: the count is saved as it was read)
DecrementNone(a) == a

\* book.available_copies -= 1
Decrement(a) == a - 1

\* CHECK (available_copies >= 0)
NonNegative(a) == a >= 0

\* books/<pk>/checkout/ requested by u: @login_required, then the POST-only
\* test. The SELECT ... FOR UPDATE of _execute_checkout first looks the row
\* up: no such book is Book.DoesNotExist (Http404); otherwise the statement
\* goes on to lock the row (CoLock).
BeginCheckout(p, u, method, b) ==
    /\ pc[p] = "idle"
    /\ IF LoginRequired(u) # "granted"
          THEN Done(p, LoginRequired(u))
          ELSE IF ~PostOnly(method)
                  THEN Done(p, "not_allowed")
                  ELSE /\ nextLoan + Cardinality(OpenCheckouts) <= MaxLoans
                       /\ IF ~books[b].live
                             THEN Done(p, "not_found")
                             ELSE /\ Request(p, "checkout", u, b, 0)
                                  /\ pc' = [pc EXCEPT ![p] = "co_lock"]
    /\ UNCHANGED <<books, nextBook, loans, nextLoan, clock>>

\* (faulty variant: the member queryset without is_staff=False)
AssignFormValidAnyUser(m, b) ==
    /\ books[b].live /\ books[b].avail > 0
    /\ ~(books[b].avail <= 0)
    /\ ~HasActiveLoan(loans, m, b)

\* AssignLoanForm.is_valid(): the member and book querysets, then clean()
AssignFormValid(m, b) ==
    /\ m \in Members
    /\ books[b].live /\ books[b].avail > 0
    /\ ~(books[b].avail <= 0)
    /\ ~HasActiveLoan(loans, m, b)

\* POST staff/loans/assign/ (FormView with AssignLoanForm) by user u, naming
\* member m and book b
BeginAssign(p, u, m, b) ==
    /\ pc[p] = "idle"
    /\ IF StaffRequired(u) # "granted"
          THEN Done(p, StaffRequired(u))
          ELSE /\ nextLoan + Cardinality(OpenCheckouts) <= MaxLoans
               /\ IF AssignFormValid(m, b)
                     THEN /\ Request(p, "assign", m, b, 0)
                          /\ pc' = [pc EXCEPT ![p] = "co_lock"]
                     ELSE Done(p, "assign_invalid")
    /\ UNCHANGED <<books, nextBook, loans, nextLoan, clock>>

\* Book.objects.select_for_update().get(pk=book_pk): the row lock is granted
\* when no other transaction holds it and the row is read as it then is;
\* then the two business-rule checks, a ValueError on either (what they read
\* cannot change while the lock is held, so they are taken with the read).
CoLock(p) ==
    /\ pc[p] = "co_lock"
    /\ LET b == tx[p].book IN
       /\ BookLockFree(p, b)
       /\ IF ~books[b].live
             THEN Done(p, IF tx[p].op = "checkout" THEN "not_found" ELSE "server_error")
             ELSE IF NoCopies(books[b].avail)
                     THEN Done(p, "no_copies")
                     ELSE IF HasActiveLoan(loans, tx[p].member, b)
                             THEN Done(p, "duplicate")
                             ELSE /\ pc' = [pc EXCEPT ![p] = "co_write"]
                                  /\ tx' = [tx EXCEPT ![p].avail = books[b].avail]
    /\ UNCHANGED <<books, nextBook, loans, nextLoan, clock>>

\* Loan.objects.create(member=member, book=book), then
\* book.available_copies -= 1; book.save(update_fields=['available_copies']),
\* then leaving `with transaction.atomic()`: an IntegrityError from either
\* statement rolls both back, otherwise both become visible together.
CoWrite(p) ==
    /\ pc[p] = "co_write"
    /\ LET m == tx[p].member
           b == tx[p].book
           a == Decrement(tx[p].avail)
       IN  IF UniqueViolation(loans, m, b) \/ ~NonNegative(a)
              THEN Done(p, "integrity") /\ UNCHANGED <<books, loans, nextLoan>>
              ELSE /\ loans' = loans \cup {NewLoan(nextLoan, m, b)}
                   /\ nextLoan' = nextLoan + 1
                   /\ books' = [books EXCEPT ![b].avail = a]
                   /\ Done(p, "ok")
    /\ UNCHANGED <<nextBook, clock>>

\* --------------------------------------------------------------- return
\* (faulty variant: the lookup without the caller's scope_filter)
ReturnMatchAnyMember(l, op, u) == {x \in loans : x.id = l /\ x.is_active}

\* (faulty variant: the lookup without is_active=True)
ReturnMatchAnyState(l, op, u) ==
    {x \in loans : x.id = l /\ (op = "return" => x.member = u)}

\* lookup = {'pk': loan_pk, 'is_active': True} plus the caller's scope_filter
ReturnMatch(l, op, u) ==
    {x \in loans : x.id = l /\ x.is_active /\ (op = "return" => x.member = u)}

\* (faulty variant: the copy is restored twice)
IncrementTwice(a) == a + 2

\* (faulty variant: the return leaves available_copies as it was)
IncrementNone(a) == a

\* book.available_copies += 1
Increment(a) == a + 1

\* loans/<pk>/return/ requested by u: @login_required, then the POST-only
\* test (scope_filter member=request.user). The SELECT ... FOR UPDATE of
\* _execute_return first looks the row up: no matching row is
\* Loan.DoesNotExist (Http404); otherwise the statement goes on to lock the
\* row (RtLockLoan).
BeginReturn(p, u, method, l) ==
    /\ pc[p] = "idle"
    /\ IF LoginRequired(u) # "granted"
          THEN Done(p, LoginRequired(u))
          ELSE IF ~PostOnly(method)
                  THEN Done(p, "not_allowed")
                  ELSE IF ReturnMatch(l, "return", u) = {}
                          THEN Done(p, "loan_not_found")
                          ELSE /\ Request(p, "return", u, 0, l)
                               /\ pc' = [pc EXCEPT ![p] = "rt_lock_loan"]
    /\ UNCHANGED <<books, nextBook, loans, nextLoan, clock>>

\* staff/loans/<pk>/force-return/ (StaffRequiredMixin, then View.dispatch:
\* only post() is defined; no scope_filter)
BeginForceReturn(p, u, method, l) ==
    /\ pc[p] = "idle"
    /\ IF StaffRequired(u) # "granted"
          THEN Done(p, StaffRequired(u))
          ELSE IF ~PostOnly(method)
                  THEN Done(p, "not_allowed")
                  ELSE IF ReturnMatch(l, "force_return", u) = {}
                          THEN Done(p, "loan_not_found")
                          ELSE /\ Request(p, "force_return", u, 0, l)
                               /\ pc' = [pc EXCEPT ![p] = "rt_lock_loan"]
    /\ UNCHANGED <<books, nextBook, loans, nextLoan, clock>>

\* Loan.objects.select_for_update().select_related('book').get(**lookup):
\* the row lock is granted when no other transaction holds it, and the
\* lookup is evaluated again on the row as it then is.
RtLockLoan(p) ==
    /\ pc[p] = "rt_lock_loan"
    /\ LoanLockFree(p, tx[p].loan)
    /\ LET found == ReturnMatch(tx[p].loan, tx[p].op, tx[p].member) IN
       IF found = {}
          THEN Done(p, "loan_not_found")
          ELSE /\ \E x \in found : tx' = [tx EXCEPT ![p].book = x.book]
               /\ pc' = [pc EXCEPT ![p] = "rt_lock_book"]
    /\ UNCHANGED <<books, nextBook, loans, nextLoan, clock>>

\* Book.objects.select_for_update().get(pk=loan.book_id)
RtLockBook(p) ==
    /\ pc[p] = "rt_lock_book"
    /\ LET b == tx[p].book IN
       IF ~books[b].live
          THEN Done(p, "server_error")
          ELSE /\ BookLockFree(p, b)
               /\ tx' = [tx EXCEPT ![p].avail = books[b].avail]
               /\ pc' = [pc EXCEPT ![p] = "rt_write"]
    /\ UNCHANGED <<books, nextBook, loans, nextLoan, clock>>

\* loan.is_active = False; loan.returned_at = timezone.now(); loan.save(...);
\* book.available_copies += 1; book.save(update_fields=['available_copies']);
\* then leaving `with transaction.atomic()`: both UPDATEs become visible together.
RtWrite(p) ==
    /\ pc[p] = "rt_write"
    /\ loans' = {IF x.id = tx[p].loan
                    THEN [x EXCEPT !.is_active = FALSE, !.returned_at = clock]
                    ELSE x : x \in loans}
    /\ clock' = clock + 1
    /\ books' = [books EXCEPT ![tx[p].book].avail = Increment(tx[p].avail)]
    /\ Done(p, "ok")
    /\ UNCHANGED <<nextBook, nextLoan>>

\* --------------------------------------------------- staff: book management
\* (faulty variant: < for <=, equal counts are turned away)
BookFormValidStrict(t, a) == t >= 0 /\ a >= 0 /\ a < t

\* BookForm.is_valid(): both counts are PositiveIntegerFields (>= 0), and clean()
BookFormValid(t, a) == t >= 0 /\ a >= 0 /\ ~(a > t)

\* What BookForm answers to an invalid submission: a field error for a
\* negative count (clean() then skips its comparison), otherwise clean()'s
\* 'Available copies cannot exceed total copies.'
BookFormError(t, a) ==
    IF t < 0 \/ a < 0 THEN "form_invalid" ELSE "exceeds_total"

\* POST staff/books/add/ (CreateView with BookForm)
StaffBookCreate(p, u, t, a) ==
    /\ pc[p] = "idle"
    /\ IF StaffRequired(u) # "granted"
          THEN Done(p, StaffRequired(u)) /\ UNCHANGED <<books, nextBook>>
          ELSE /\ nextBook <= MaxBooks
               /\ IF BookFormValid(t, a)
                     THEN /\ books' = [books EXCEPT ![nextBook] =
                                           [live |-> TRUE, total |-> t, avail |-> a]]
                          /\ nextBook' = nextBook + 1
                          /\ Done(p, "ok")
                     ELSE /\ Done(p, BookFormError(t, a))
                          /\ UNCHANGED <<books, nextBook>>
    /\ UNCHANGED <<loans, nextLoan, clock>>

\* POST staff/books/<pk>/edit/ (UpdateView with BookForm): the form writes
\* every field it lists, available_copies included
StaffBookUpdate(p, u, b, t, a) ==
    /\ pc[p] = "idle"
    /\ IF StaffRequired(u) # "granted"
          THEN Done(p, StaffRequired(u)) /\ UNCHANGED books
          ELSE IF ~books[b].live
                  THEN Done(p, "not_found") /\ UNCHANGED books
                  ELSE IF ~BookFormValid(t, a)
                          THEN Done(p, BookFormError(t, a)) /\ UNCHANGED books
                          ELSE /\ BookLockFree(p, b)
                               /\ books' = [books EXCEPT ![b].total = t, ![b].avail = a]
                               /\ Done(p, "ok")
    /\ UNCHANGED <<nextBook, loans, nextLoan, clock>>

\* POST staff/books/<pk>/delete/: get_object(), then form_valid's active-loan check
StaffDeleteCheck(p, u, b) ==
    /\ pc[p] = "idle"
    /\ IF StaffRequired(u) # "granted"
          THEN Done(p, StaffRequired(u))
          ELSE IF ~books[b].live
                  THEN Done(p, "not_found")
                  ELSE IF BookHasActiveLoans(loans, b)
                          THEN Done(p, "blocked")
                          ELSE /\ Request(p, "delete", u, b, 0)
                               /\ pc' = [pc EXCEPT ![p] = "del_exec"]
    /\ UNCHANGED <<books, nextBook, loans, nextLoan, clock>>

\* Loan.book is on_delete=CASCADE: the loans that outlive the deletion of book b
Cascade(ls, b) == {l \in ls : l.book # b}

\* super().form_valid(form): self.object.delete(), which waits for the row
\* locks other transactions hold on the book and on its loans
StaffDeleteExec(p) ==
    /\ pc[p] = "del_exec"
    /\ LET b == tx[p].book IN
       /\ BookLockFree(p, b)
       /\ \A l \in loans : l.book = b => LoanLockFree(p, l.id)
       /\ books' = [books EXCEPT ![b] = NoBook]
       /\ loans' = Cascade(loans, b)
    /\ Done(p, "ok")
    /\ UNCHANGED <<nextBook, nextLoan, clock>>

\* ------------------------------------------------------------ page views
LiveBooks == {b \in BookIds : books[b].live}

\* GET / (the catalogue): Book.objects.all()
BookList(p, u) ==
    /\ pc[p] = "idle"
    /\ IF LoginRequired(u) # "granted"
          THEN Done(p, LoginRequired(u))
          ELSE Render(p, [NoPage EXCEPT !.books = LiveBooks])
    /\ UNCHANGED <<books, nextBook, loans, nextLoan, clock>>

\* GET books/<pk>/: get_object_or_404, has_active_loan, can_checkout
BookDetail(p, u, b) ==
    /\ pc[p] = "idle"
    /\ IF LoginRequired(u) # "granted"
          THEN Done(p, LoginRequired(u))
          ELSE IF ~books[b].live
                  THEN Done(p, "not_found")
                  ELSE LET has_active_loan == HasActiveLoan(loans, u, b)
                           can_checkout == books[b].avail > 0 /\ ~has_active_loan
                       IN  Render(p, [NoPage EXCEPT !.books = {b},
                                         !.has_active_loan = has_active_loan,
                                         !.can_checkout = can_checkout])
    /\ UNCHANGED <<books, nextBook, loans, nextLoan, clock>>

\* (faulty variant: the past loans of every member)
PastLoansAnyMember(ls, u) == {l \in ls : ~l.is_active}

\* Loan.objects.filter(member=request.user, is_active=True)
ActiveLoans(ls, u) == {l \in ls : l.member = u /\ l.is_active}

\* Loan.objects.filter(member=request.user, is_active=False)
PastLoans(ls, u) == {l \in ls : l.member = u /\ ~l.is_active}

\* GET my-loans/
MyLoans(p, u) ==
    /\ pc[p] = "idle"
    /\ IF LoginRequired(u) # "granted"
          THEN Done(p, LoginRequired(u))
          ELSE Render(p, [NoPage EXCEPT !.active_loans = Pks(ActiveLoans(loans, u)),
                                        !.past_loans = Pks(PastLoans(loans, u))])
    /\ UNCHANGED <<books, nextBook, loans, nextLoan, clock>>

\* GET staff/books/
StaffBookList(p, u) ==
    /\ pc[p] = "idle"
    /\ IF StaffRequired(u) # "granted"
          THEN Done(p, StaffRequired(u))
          ELSE Render(p, [NoPage EXCEPT !.books = LiveBooks])
    /\ UNCHANGED <<books, nextBook, loans, nextLoan, clock>>

\* (faulty variant: the two filters exchanged)
LoanListSwapped(ls, status) ==
    IF status = "active" THEN {l \in ls : ~l.is_active}
    ELSE IF status = "returned" THEN {l \in ls : l.is_active}
    ELSE ls

\* StaffLoanListView.get_queryset()
LoanList(ls, status) ==
    IF status = "active" THEN {l \in ls : l.is_active}
    ELSE IF status = "returned" THEN {l \in ls : ~l.is_active}
    ELSE ls

\* GET staff/loans/?status=...
StaffLoanList(p, u, status) ==
    /\ pc[p] = "idle"
    /\ IF StaffRequired(u) # "granted"
          THEN Done(p, StaffRequired(u))
          ELSE Render(p, [NoPage EXCEPT !.loans = Pks(LoanList(loans, status))])
    /\ UNCHANGED <<books, nextBook, loans, nextLoan, clock>>

\* ----------------------------------------------------------------- Next
\* The transaction core: request handlers run concurrently, each request is
\* a POST by a logged-in user who passes the access check of its endpoint.
Next ==
    \E p \in Procs :
        \/ \E u \in Users, b \in BookIds : BeginCheckout(p, u, "POST", b)
        \/ \E m \in Users, b \in BookIds : BeginAssign(p, StaffUser, m, b)
        \/ CoLock(p)
        \/ CoWrite(p)
        \/ \E u \in Users, l \in LoanIds : BeginReturn(p, u, "POST", l)
        \/ \E l \in LoanIds : BeginForceReturn(p, StaffUser, "POST", l)
        \/ RtLockLoan(p)
        \/ RtLockBook(p)
        \/ RtWrite(p)
        \/ \E t \in Copies, a \in Copies : StaffBookCreate(p, StaffUser, t, a)
        \/ \E b \in BookIds, t \in Copies, a \in Copies :
                StaffBookUpdate(p, StaffUser, b, t, a)
        \/ \E b \in BookIds : StaffDeleteCheck(p, StaffUser, b)
        \/ StaffDeleteExec(p)

Spec == Init /\ [][Next]_vars

\* The whole site, one request at a time: every endpoint of library/urls.py
\* that reads or writes books and loans, requested by anyone (anonymous,
\* member, staff), the loan endpoints with either method, the staff forms
\* with any input.
SiteProcs == {1}

SiteNext ==
    \E p \in SiteProcs :
        \/ \E u \in Actors : BookList(p, u)
        \/ \E u \in Actors, b \in BookIds : BookDetail(p, u, b)
        \/ \E u \in Actors, method \in Methods, b \in BookIds :
                BeginCheckout(p, u, method, b)
        \/ CoLock(p)
        \/ CoWrite(p)
        \/ \E u \in Actors, method \in Methods, l \in LoanIds :
                BeginReturn(p, u, method, l)
        \/ RtLockLoan(p)
        \/ RtLockBook(p)
        \/ RtWrite(p)
        \/ \E u \in Actors : MyLoans(p, u)
        \/ \E u \in Actors : StaffBookList(p, u)
        \/ \E u \in Actors, t \in CopyInputs, a \in CopyInputs :
                StaffBookCreate(p, u, t, a)
        \/ \E u \in Actors, b \in BookIds, t \in CopyInputs, a \in CopyInputs :
                StaffBookUpdate(p, u, b, t, a)
        \/ \E u \in Actors, b \in BookIds : StaffDeleteCheck(p, u, b)
        \/ StaffDeleteExec(p)
        \/ \E u \in Actors, status \in Statuses : StaffLoanList(p, u, status)
        \/ \E u \in Actors, m \in Users, b \in BookIds : BeginAssign(p, u, m, b)
        \/ \E u \in Actors, method \in Methods, l \in LoanIds :
                BeginForceReturn(p, u, method, l)

SiteSpec == Init /\ [][SiteNext]_vars

\* The loan desk of a stocked library: the staff have entered the books
\* (any counts the book form accepts) and nobody has borrowed yet; from then
\* on only checkouts, assignments, returns and force-returns are requested,
\* by concurrent handlers.
Stocked == {[live |-> TRUE, total |-> t, avail |-> a] :
                <<t, a>> \in {c \in Copies \X Copies : BookFormValid(c[1], c[2])}}

LoanInit ==
    /\ books \in [BookIds -> Stocked]
    /\ nextBook = MaxBooks + 1
    /\ loans = {}
    /\ nextLoan = 1
    /\ clock = 1
    /\ pc = [p \in Procs |-> "idle"]
    /\ tx = [p \in Procs |-> NoTx]

LoanNext ==
    \E p \in Procs :
        \/ \E u \in Users, b \in BookIds : BeginCheckout(p, u, "POST", b)
        \/ \E m \in Users, b \in BookIds : BeginAssign(p, StaffUser, m, b)
        \/ CoLock(p)
        \/ CoWrite(p)
        \/ \E u \in Users, l \in LoanIds : BeginReturn(p, u, "POST", l)
        \/ \E l \in LoanIds : BeginForceReturn(p, StaffUser, "POST", l)
        \/ RtLockLoan(p)
        \/ RtLockBook(p)
        \/ RtWrite(p)

\* A handler inside transaction.atomic() keeps running: a step that waits
\* for nothing is taken, and the database grants a row lock that stays free
\* to the transaction waiting for it (weak fairness of every step of a
\* transaction in flight). Nothing obliges anyone to send a new request.
LoanFair ==
    \A p \in Procs :
        /\ WF_vars(CoLock(p))
        /\ WF_vars(CoWrite(p))
        /\ WF_vars(RtLockLoan(p))
        /\ WF_vars(RtLockBook(p))
        /\ WF_vars(RtWrite(p))

LoanSpec == LoanInit /\ [][LoanNext]_vars /\ LoanFair

\* ================================================================ claims
ActiveLoansOfBook(b) == {l \in loans : l.book = b /\ l.is_active}
CheckoutPcs == {"co_lock", "co_write"}
ReturnPcs   == {"rt_lock_loan", "rt_lock_book", "rt_write"}

\* handler p takes a step that ends its request with `result`
Responds(p, result) == pc[p] # "idle" /\ pc'[p] = "idle" /\ tx'[p].result = result

\* C1: in every reachable state each (member, book) pair has at most one
\* Loan with is_active = True, whatever the interleaving of member checkouts
\* and staff assignments.
C1_OneActiveLoanPerPair ==
    \A m \in Users, b \in BookIds :
        Cardinality({l \in loans : l.member = m /\ l.book = b /\ l.is_active}) <= 1

\* a member's checkout and a staff assignment of the same (member, book)
\* pair overlap: one is about to write, the other waits for the book row
C1_Witness ==
    \E p, q \in Procs :
        /\ pc[p] = "co_write" /\ pc[q] = "co_lock"
        /\ {tx[p].op, tx[q].op} = {"checkout", "assign"}
        /\ tx[p].member = tx[q].member /\ tx[p].book = tx[q].book

\* C2: in every reachable state every Book has 0 <= available_copies <=
\* total_copies.
C2_AvailableWithinTotal ==
    \A b \in BookIds :
        books[b].live => (0 <= books[b].avail /\ books[b].avail <= books[b].total)

\* C3: concurrent checkouts of one book never hand out more copies than it
\* has: the transactions admitted past the availability check never outnumber
\* the available copies, available_copies never becomes negative, every
\* checkout that succeeds takes a copy that is still there when it commits
\* (the count it read is the committed count, and is at least 1), and a
\* transaction that holds the row lock and reads a count of 0 is rejected
\* with 'No copies currently available.'
C3_Admitted(b) == {p \in Procs : pc[p] = "co_write" /\ tx[p].book = b}

C3_ConcurrentCheckouts ==
    /\ [](\A b \in BookIds :
            /\ books[b].avail >= 0
            /\ Cardinality(C3_Admitted(b)) <= books[b].avail)
    /\ [][\A p \in Procs :
            (/\ pc[p] = "co_lock" /\ pc'[p] # "co_lock"
             /\ books[tx[p].book].live /\ books[tx[p].book].avail = 0)
            => Responds(p, "no_copies")]_vars
    /\ [][\A p \in Procs :
            (pc[p] = "co_write" /\ Responds(p, "ok"))
            => /\ books[tx[p].book].avail = tx[p].avail
               /\ books[tx[p].book].avail >= 1
               /\ books'[tx[p].book].avail >= 0]_vars

\* two users' checkouts of the same book overlap while it has one copy left
C3_Witness ==
    \E p, q \in Procs :
        /\ pc[p] = "co_write" /\ pc[q] = "co_lock"
        /\ tx[p].book = tx[q].book /\ tx[p].member # tx[q].member
        /\ books[tx[p].book].avail = 1

\* C4: a successful checkout (member checkout or staff assignment) of book b
\* by member m adds exactly one Loan (m, b), active and with returned_at
\* unset, and lowers b.available_copies by exactly 1 in the same committed
\* step; every other step of a checkout handler leaves books and loans as
\* they were, and no loan appears in any other way.
C4_Success(p) ==
    LET m == tx[p].member
        b == tx[p].book
    IN  /\ \E n \in loans' :
              /\ \A l \in loans : l.id # n.id
              /\ n.member = m /\ n.book = b /\ n.is_active /\ n.returned_at = Null
              /\ loans' = loans \cup {n}
        /\ books' = [books EXCEPT ![b].avail = books[b].avail - 1]

C4_CheckoutAtomic ==
    [][/\ \A p \in Procs :
            (pc[p] \in CheckoutPcs /\ pc'[p] # pc[p]) =>
                IF Responds(p, "ok") THEN C4_Success(p)
                                     ELSE UNCHANGED <<books, loans>>
       /\ (\E n \in loans' : \A l \in loans : l.id # n.id) =>
            \E p \in Procs : pc[p] = "co_write" /\ Responds(p, "ok")]_vars

\* a checkout has committed: its loan is active and its book is one copy down
C4_Witness ==
    \E p \in Procs, l \in loans :
        /\ tx[p].result = "ok"
        /\ l.is_active /\ l.returned_at = Null
        /\ books[l.book].live /\ books[l.book].avail = books[l.book].total - 1

\* C5: a successful return (member return or staff force-return) of an
\* active loan sets its is_active to False and its returned_at, and raises
\* its book's available_copies by exactly 1, in the same committed step,
\* leaving every other loan and book unchanged; every other step of a return
\* handler changes no book and no loan.
C5_Success(p) ==
    \E l \in loans :
        /\ l.id = tx[p].loan /\ l.is_active
        /\ \E r \in loans' :
              /\ r.id = l.id /\ r.member = l.member /\ r.book = l.book
              /\ ~r.is_active /\ r.returned_at # Null
              /\ loans' = (loans \ {l}) \cup {r}
        /\ books' = [books EXCEPT ![l.book].avail = books[l.book].avail + 1]

C5_ReturnAtomic ==
    [][\A p \in Procs :
            (pc[p] \in ReturnPcs /\ pc'[p] # pc[p]) =>
                IF Responds(p, "ok") THEN C5_Success(p)
                                     ELSE UNCHANGED <<books, loans>>]_vars

\* a return has committed: the loan is inactive and stamped
C5_Witness ==
    \E p \in Procs, l \in loans :
        tx[p].result = "ok" /\ ~l.is_active /\ l.returned_at # Null

\* C6: in every reachable state each Book's available_copies equals
\* total_copies minus the number of its active Loans.
C6_AvailableIsTotalMinusActive ==
    \A b \in BookIds :
        books[b].live =>
            books[b].avail = books[b].total - Cardinality(ActiveLoansOfBook(b))

\* C7: the available_copies of an existing Book is changed only by the
\* commit of a checkout or of a return.
C7_OnlyCheckoutAndReturnWrite ==
    [][\A b \in BookIds :
            (books[b].live /\ books'[b].live /\ books'[b].avail # books[b].avail) =>
                \E p \in Procs :
                    /\ pc[p] \in {"co_write", "rt_write"}
                    /\ tx[p].book = b
                    /\ Responds(p, "ok")]_vars

\* C8: a Loan changes at most once after its creation, by the return step
\* (is_active True -> False, returned_at set, nothing else); a returned loan
\* never becomes active again and its returned_at never changes.
C8_LoanMutatedOnce ==
    [][\A l \in loans, r \in loans' :
            r.id = l.id =>
                \/ r = l
                \/ /\ l.is_active /\ l.returned_at = Null
                   /\ ~r.is_active /\ r.returned_at # Null
                   /\ r.member = l.member /\ r.book = l.book]_vars

\* a returned loan is still there, as it was stamped, after its member has
\* borrowed the same book again
C8_Witness ==
    \E l, n \in loans :
        /\ ~l.is_active /\ l.returned_at # Null
        /\ n.is_active /\ n.member = l.member /\ n.book = l.book /\ n.id > l.id

\* C9: no Loan is ever deleted: a loan that exists in a state exists in
\* every later state.
C9_LoansNeverDeleted ==
    [][\A l \in loans : \E r \in loans' : r.id = l.id]_vars

\* C10: a checkout of a book whose available_copies is 0 is rejected with
\* the handled 'No copies currently available.' error: no Loan is created,
\* and every book and every existing loan is unchanged.
C10_NoCopiesRejected ==
    [][\A p \in Procs :
            (/\ pc[p] = "co_lock" /\ pc'[p] # "co_lock"
             /\ books[tx[p].book].live /\ books[tx[p].book].avail = 0)
            => /\ Responds(p, "no_copies")
               /\ UNCHANGED <<books, loans, nextLoan>>]_vars

\* a checkout has been turned away for lack of copies
C10_Witness ==
    \E p \in Procs, b \in BookIds :
        tx[p].result = "no_copies" /\ books[b].live /\ books[b].avail = 0

\* ---------------------------------------------------------------- C11..C20
Db == <<books, nextBook, loans, nextLoan, clock>>

\* handler p answers a request at once with `result` and touches no row
Refused(p, result) ==
    /\ pc[p] = "idle" /\ pc'[p] = "idle"
    /\ tx'[p].result = result
    /\ UNCHANGED Db

\* C11: a checkout (member checkout or staff assignment) for a member who
\* already holds an active loan of that book is rejected and changes nothing:
\* the check made under the book's row lock answers 'already has an active
\* loan' (or 'No copies' when the book has none left), an INSERT that got as
\* far as the unique index fails with IntegrityError, and the assign form
\* turns the pair away; in each case no loan is added and no count changes.
C11_Holds(m, b) == \E l \in loans : l.member = m /\ l.book = b /\ l.is_active

C11_DuplicateRejected ==
    \A p \in Procs :
        /\ (pc[p] = "co_lock" /\ C11_Holds(tx[p].member, tx[p].book)) =>
              ~ENABLED (/\ CoLock(p)
                        /\ ~(/\ UNCHANGED Db
                             /\ \/ Responds(p, "duplicate")
                                \/ /\ books[tx[p].book].avail <= 0
                                   /\ Responds(p, "no_copies")))
        /\ (pc[p] = "co_write" /\ C11_Holds(tx[p].member, tx[p].book)) =>
              ~ENABLED (/\ CoWrite(p)
                        /\ ~(UNCHANGED Db /\ Responds(p, "integrity")))
        /\ \A m \in Users, b \in BookIds :
              C11_Holds(m, b) =>
                  ~ENABLED (/\ BeginAssign(p, StaffUser, m, b)
                            /\ ~Refused(p, "assign_invalid"))

\* a second checkout of a book that still has copies was turned away as a
\* duplicate while the first loan is active
C11_Witness ==
    \E p \in Procs, l \in loans :
        /\ tx[p].result = "duplicate"
        /\ l.is_active /\ books[l.book].live /\ books[l.book].avail > 0

\* C12: a return (member return or staff force-return) that names a loan id
\* with no active loan behind it (no such loan, or a loan already returned)
\* is answered 404 and changes no book and no loan, also when the loan was
\* returned by someone else while the request waited for its row; so a second
\* return of the same loan never adds a copy.
C12_NoActiveLoan(l) == ~\E x \in loans : x.id = l /\ x.is_active

C12_UnknownOrReturned ==
    \A p \in Procs :
        /\ \A u \in Users, l \in LoanIds :
              C12_NoActiveLoan(l) =>
                  ~ENABLED (/\ \/ BeginReturn(p, u, "POST", l)
                               \/ BeginForceReturn(p, StaffUser, "POST", l)
                            /\ ~Refused(p, "loan_not_found"))
        /\ (pc[p] = "rt_lock_loan" /\ C12_NoActiveLoan(tx[p].loan)) =>
              ~ENABLED (/\ RtLockLoan(p)
                        /\ ~(Responds(p, "loan_not_found") /\ UNCHANGED Db))

\* a return was answered 404 and the only loan there ever was is returned,
\* its book holding its copies again, counted once
C12_Witness ==
    \E p \in Procs, l \in loans :
        /\ tx[p].result = "loan_not_found"
        /\ ~l.is_active /\ loans = {l} /\ nextLoan = l.id + 1
        /\ books[l.book].live /\ books[l.book].avail = books[l.book].total

\* C13: loan_return_view called by user u for an active loan of another
\* member is answered 404 and changes nothing (the loan stays active, the
\* count stays); a loan is deactivated only by the commit of a return made by
\* its own member or of a staff force-return.
C13_OnlyOwnerOrStaff ==
    /\ [](\A p \in Procs, u \in Users, l \in LoanIds :
            (\E x \in loans : x.id = l /\ x.is_active /\ x.member # u) =>
                ~ENABLED (/\ BeginReturn(p, u, "POST", l)
                          /\ ~Refused(p, "loan_not_found")))
    /\ [][\A l \in loans, r \in loans' :
            (r.id = l.id /\ l.is_active /\ ~r.is_active) =>
                \E p \in Procs :
                    /\ pc[p] = "rt_write" /\ tx[p].loan = l.id /\ Responds(p, "ok")
                    /\ \/ tx[p].op = "return" /\ tx[p].member = l.member
                       \/ tx[p].op = "force_return" /\ tx[p].member = StaffUser]_vars

\* a return was answered 404 while loans of two different users were active
\* and no loan had ever been returned
C13_Witness ==
    \E p \in Procs :
        /\ tx[p].result = "loan_not_found"
        /\ clock = 1
        /\ \A l \in loans : l.is_active
        /\ \E l, n \in loans : l.member # n.member

\* C14: a request that fails the access check of its endpoint changes no
\* Book and no Loan: an anonymous request to any endpoint behind
\* @login_required or StaffRequiredMixin is redirected to the login page, and
\* a request of a logged-in non-staff user to any staff view is answered 403.
C14_MemberEndpoint(p, u) ==
    \/ BookList(p, u)
    \/ \E b \in BookIds : BookDetail(p, u, b)
    \/ \E method \in Methods, b \in BookIds : BeginCheckout(p, u, method, b)
    \/ \E method \in Methods, l \in LoanIds : BeginReturn(p, u, method, l)
    \/ MyLoans(p, u)

C14_StaffEndpoint(p, u) ==
    \/ StaffBookList(p, u)
    \/ \E t \in CopyInputs, a \in CopyInputs : StaffBookCreate(p, u, t, a)
    \/ \E b \in BookIds, t \in CopyInputs, a \in CopyInputs :
            StaffBookUpdate(p, u, b, t, a)
    \/ \E b \in BookIds : StaffDeleteCheck(p, u, b)
    \/ \E status \in Statuses : StaffLoanList(p, u, status)
    \/ \E m \in Users, b \in BookIds : BeginAssign(p, u, m, b)
    \/ \E method \in Methods, l \in LoanIds : BeginForceReturn(p, u, method, l)

C14_UnauthorizedChangeNothing ==
    \A p \in Procs :
        /\ ~ENABLED (/\ \/ C14_MemberEndpoint(p, Anonymous)
                        \/ C14_StaffEndpoint(p, Anonymous)
                     /\ ~Refused(p, "login_redirect"))
        /\ \A m \in Members :
              ~ENABLED (C14_StaffEndpoint(p, m) /\ ~Refused(p, "forbidden"))

\* a non-staff request to a staff view was answered 403 while there were a
\* book and an active loan it could have touched
C14_Witness ==
    \E p \in Procs, l \in loans :
        tx[p].result = "forbidden" /\ l.is_active /\ books[l.book].live

\* C15: a GET to the checkout, member-return or staff force-return endpoint
\* by a user who passes its access check is answered 405, and a GET to any
\* of them, whoever sends it, changes no Book and no Loan.
C15_GetRejected ==
    \A p \in Procs :
        /\ \A u \in Users, b \in BookIds :
              ~ENABLED (BeginCheckout(p, u, "GET", b) /\ ~Refused(p, "not_allowed"))
        /\ \A u \in Users, l \in LoanIds :
              ~ENABLED (BeginReturn(p, u, "GET", l) /\ ~Refused(p, "not_allowed"))
        /\ \A l \in LoanIds :
              ~ENABLED (/\ BeginForceReturn(p, StaffUser, "GET", l)
                        /\ ~Refused(p, "not_allowed"))
        /\ \A u \in Actors, b \in BookIds, l \in LoanIds :
              ~ENABLED (/\ \/ BeginCheckout(p, u, "GET", b)
                           \/ BeginReturn(p, u, "GET", l)
                           \/ BeginForceReturn(p, u, "GET", l)
                        /\ ~(pc'[p] = "idle" /\ UNCHANGED Db))

\* a GET was answered 405 while a book had a copy to lend and a loan was
\* there to return
C15_Witness ==
    \E p \in Procs, b \in BookIds, l \in loans :
        /\ tx[p].result = "not_allowed"
        /\ books[b].live /\ books[b].avail > 0 /\ l.is_active

\* C16: a staff delete request for a book that has an active loan is
\* refused ('Cannot delete this book'): no book and no loan changes; a delete
\* request for a book without active loans goes on to delete that book, and
\* the deletion touches no other book and no loan of another book.
C16_DeleteBlocked ==
    \A p \in Procs :
        /\ \A b \in BookIds :
              books[b].live =>
                  IF \E l \in loans : l.book = b /\ l.is_active
                     THEN ~ENABLED (/\ StaffDeleteCheck(p, StaffUser, b)
                                    /\ ~Refused(p, "blocked"))
                     ELSE ~ENABLED (/\ StaffDeleteCheck(p, StaffUser, b)
                                    /\ ~(/\ pc'[p] = "del_exec" /\ tx'[p].book = b
                                         /\ UNCHANGED Db))
        /\ pc[p] = "del_exec" =>
              ~ENABLED (/\ StaffDeleteExec(p)
                        /\ ~(/\ Responds(p, "ok")
                             /\ ~books'[tx[p].book].live
                             /\ \A b \in BookIds \ {tx[p].book} : books'[b] = books[b]
                             /\ \A l \in loans : l.book # tx[p].book => l \in loans'
                             /\ loans' \subseteq loans))

\* a delete request was refused and the book with its active loan is there
C16_Witness ==
    \E p \in Procs, l \in loans :
        tx[p].result = "blocked" /\ l.is_active /\ books[l.book].live

\* C17: a staff create or edit submission with copy counts (total,
\* available) is accepted, and stored as submitted, exactly when
\* 0 <= available <= total; every other submission stores nothing, and one
\* with non-negative counts and available > total is answered 'Available
\* copies cannot exceed total copies.'
C17_Verdict(p, t, a, stored) ==
    IF 0 <= a /\ a <= t
       THEN /\ tx'[p].result = "ok"
            /\ books' = stored
            /\ UNCHANGED <<loans, nextLoan, clock>>
       ELSE /\ UNCHANGED Db
            /\ tx'[p].result # "ok"
            /\ (0 <= a /\ 0 <= t) => tx'[p].result = "exceeds_total"

C17_BookFormAccepts ==
    \A p \in Procs, t \in CopyInputs, a \in CopyInputs :
        /\ ~ENABLED (/\ StaffBookCreate(p, StaffUser, t, a)
                     /\ ~C17_Verdict(p, t, a,
                            [books EXCEPT ![nextBook] =
                                [live |-> TRUE, total |-> t, avail |-> a]]))
        /\ \A b \in BookIds :
              books[b].live =>
                  ~ENABLED (/\ StaffBookUpdate(p, StaffUser, b, t, a)
                            /\ ~C17_Verdict(p, t, a,
                                   [books EXCEPT ![b].total = t, ![b].avail = a]))

\* a submission with available > total was turned away while a book stored
\* with available = total is there
C17_Witness ==
    \E p \in Procs, b \in BookIds :
        /\ tx[p].result = "exceeds_total"
        /\ books[b].live /\ books[b].total > 0 /\ books[b].avail = books[b].total

\* C18: the staff assign form is valid, and the request goes on to the
\* checkout transaction, exactly when the chosen member is a non-staff user,
\* the chosen book exists with available_copies > 0, and the member has no
\* active loan of that book; otherwise the form is invalid and the request
\* adds no loan and changes no count.
C18_Verdict(p, m, b) ==
    /\ UNCHANGED Db
    /\ IF /\ m # StaffUser
          /\ books[b].live /\ books[b].avail > 0
          /\ ~\E l \in loans : l.member = m /\ l.book = b /\ l.is_active
          THEN /\ pc'[p] = "co_lock"
               /\ tx'[p].op = "assign"
               /\ tx'[p].member = m /\ tx'[p].book = b
          ELSE /\ pc'[p] = "idle"
               /\ tx'[p].result = "assign_invalid"

C18_AssignFormExact ==
    \A p \in Procs, m \in Users, b \in BookIds :
        ~ENABLED (BeginAssign(p, StaffUser, m, b) /\ ~C18_Verdict(p, m, b))

\* an assignment was turned away by the form although a book had a copy
C18_Witness ==
    \E p \in Procs, b \in BookIds :
        tx[p].result = "assign_invalid" /\ books[b].live /\ books[b].avail > 0

\* C19: the staff loan list shows, for status=active, exactly the loans
\* with is_active = True; for status=returned, exactly those with is_active
\* = False; for any other status value, or none, every loan.
C19_Expected(status) ==
    IF status = "active" THEN {l \in loans : l.is_active}
    ELSE IF status = "returned" THEN {l \in loans : ~l.is_active}
    ELSE loans

C19_LoanListByStatus ==
    \A p \in Procs, status \in Statuses :
        ~ENABLED (/\ StaffLoanList(p, StaffUser, status)
                  /\ ~(/\ tx'[p].result = "ok"
                       /\ tx'[p].page.loans = {l.id : l \in C19_Expected(status)}
                       /\ UNCHANGED Db))

\* a filtered list was shown: some loans on it, others left out, with active
\* and returned loans both in the table
C19_Witness ==
    \E p \in Procs :
        /\ tx[p].page.loans # {}
        /\ tx[p].page.loans # {l.id : l \in loans}
        /\ \E l, r \in loans : l.is_active /\ ~r.is_active

\* C20: the my-loans page of user u lists in active_loans exactly u's loans
\* with is_active = True and in past_loans exactly u's loans with is_active =
\* False: each loan of u is in exactly one list, no loan of anyone else is in
\* either.
C20_Partition(p, u) ==
    LET active_loans == tx'[p].page.active_loans
        past_loans   == tx'[p].page.past_loans
    IN  /\ tx'[p].result = "ok"
        /\ active_loans \cap past_loans = {}
        /\ active_loans \cup past_loans = {l.id : l \in {x \in loans : x.member = u}}
        /\ \A l \in loans :
              /\ l.id \in active_loans => l.is_active
              /\ l.id \in past_loans => ~l.is_active
        /\ UNCHANGED Db

C20_MyLoansPartition ==
    \A p \in Procs, u \in Users :
        ~ENABLED (MyLoans(p, u) /\ ~C20_Partition(p, u))

\* a my-loans page shows a returned loan of its user and leaves out the
\* loan of another member
C20_Witness ==
    \E p \in Procs, l \in loans :
        /\ tx[p].page.past_loans # {}
        /\ l.id \notin (tx[p].page.active_loans \cup tx[p].page.past_loans)

C22_DeleteSparesActiveLoans ==
    [][/\ \A b \in BookIds :
             (books[b].live /\ ActiveLoansOfBook(b) # {}) => books'[b].live
       /\ \A l \in loans :
             l.is_active => \E r \in loans' : r.id = l.id]_vars

\* C23: conservation. For every book, available_copies plus the number of
\* its active loans has the same value before and after every step of a
\* member checkout, staff assignment, member return and staff force-return,
\* whether the request is accepted or turned away (at once, under the row
\* lock, or at commit), in every interleaving of the requests.
C23_Sum(b) == books[b].avail + Cardinality(ActiveLoansOfBook(b))

C23_SumAfter(b) ==
    books'[b].avail + Cardinality({l \in loans' : l.book = b /\ l.is_active})

C23_Conserved == \A b \in BookIds : C23_SumAfter(b) = C23_Sum(b)

C23_Conservation ==
    /\ [](\A p \in Procs :
            ~ENABLED (/\ \/ \E u \in Users, b \in BookIds :
                               BeginCheckout(p, u, "POST", b)
                         \/ \E m \in Users, b \in BookIds :
                               BeginAssign(p, StaffUser, m, b)
                         \/ \E u \in Users, l \in LoanIds :
                               BeginReturn(p, u, "POST", l)
                         \/ \E l \in LoanIds :
                               BeginForceReturn(p, StaffUser, "POST", l)
                      /\ ~C23_Conserved))
    /\ [][\A p \in Procs :
             (pc[p] \in (CheckoutPcs \cup ReturnPcs) /\ pc'[p] # pc[p]) =>
                 C23_Conserved]_vars

\* a checkout and a return of the same book have both committed: the book
\* has a returned loan and an active one, and the last answer was a success
C23_Witness ==
    \E p \in Procs, b \in BookIds :
        /\ tx[p].result = "ok"
        /\ books[b].live
        /\ ActiveLoansOfBook(b) # {}
        /\ \E l \in loans : l.book = b /\ ~l.is_active

\* C24: round trip. A successful checkout of book b (loan n) followed by the
\* return of that loan, with no other checkout or return committed in
\* between, restores b's available_copies to its value before the checkout;
\* afterwards the same member can check out b again: a copy is there, the
\* member holds no active loan of b, and the returned row does not stand in
\* the way of the unique index, which covers active rows only.
C24_Before(b, a, n, c) ==
    books[b].avail = a /\ nextLoan = n /\ clock = c

C24_CanCheckOut(m, b) ==
    /\ ~NoCopies(books[b].avail)
    /\ ~HasActiveLoan(loans, m, b)
    /\ ~UniqueViolation(loans, m, b)
    /\ NonNegative(Decrement(books[b].avail))

C24_After(b, a, n, c) ==
    (/\ nextLoan = n + 1 /\ clock = c + 1
     /\ \E l \in loans : l.id = n /\ l.book = b /\ ~l.is_active) =>
        /\ books[b].avail = a
        /\ \A l \in loans : l.id = n => C24_CanCheckOut(l.member, b)

C24_RoundTrip ==
    \A b \in BookIds, a \in Copies, n \in LoanIds, c \in 1..MaxLoans :
        [](C24_Before(b, a, n, c) => []C24_After(b, a, n, c))

\* after a round trip the member has asked for the book again, and the
\* request is about to commit next to the returned loan of the same pair
C24_Witness ==
    \E p \in Procs, l \in loans :
        /\ ~l.is_active
        /\ pc[p] = "co_write" /\ tx[p].op = "checkout"
        /\ tx[p].member = l.member /\ tx[p].book = l.book
        /\ books[l.book].avail = books[l.book].total

\* C25: in every state reached through the application's checkouts and
\* returns, a Loan has is_active = True if and only if its returned_at is
\* unset (NULL).
C25_ActiveIffNotReturned ==
    \A l \in loans : l.is_active <=> (l.returned_at = Null)

\* an older loan is still out while a newer one has been returned
C25_Witness ==
    \E a \in loans, r \in loans :
        /\ a.id < r.id
        /\ a.is_active /\ a.returned_at = Null
        /\ ~r.is_active /\ r.returned_at # Null

\* C26: the book detail view's flags agree with the checkout operation. For
\* every state, user m and existing book b, has_active_loan on the page is
\* True exactly when m has an active loan of b, and can_checkout is True
\* exactly when m's checkout of b requested in that same state, with nothing
\* in between, succeeds: the request reaches the check under the row lock,
\* passes it exactly when the flag is True, and then commits.
C26_CanCheckout(q, m, b) ==
    ENABLED (BookDetail(q, m, b) /\ tx'[q].page.can_checkout)

C26_HasActiveLoan(q, m, b) ==
    ENABLED (BookDetail(q, m, b) /\ tx'[q].page.has_active_loan)

C26_Checkout(p, m, b) ==
    tx[p].op = "checkout" /\ tx[p].member = m /\ tx[p].book = b

C26_DetailAgreesWithCheckout ==
    \A q \in Procs, m \in Users, b \in BookIds :
        (pc[q] = "idle" /\ books[b].live) =>
            /\ C26_HasActiveLoan(q, m, b) <=>
                  (\E l \in loans : l.member = m /\ l.book = b /\ l.is_active)
            /\ ~ENABLED (/\ BeginCheckout(q, m, "POST", b)
                         /\ ~(pc'[q] = "co_lock" /\ UNCHANGED Db))
            /\ \A p \in Procs \ {q} :
                  /\ (pc[p] = "co_lock" /\ C26_Checkout(p, m, b)) =>
                        /\ C26_CanCheckout(q, m, b) <=>
                              ENABLED (CoLock(p) /\ pc'[p] = "co_write")
                        /\ ~ENABLED (/\ CoLock(p)
                                     /\ pc'[p] # "co_write"
                                     /\ ~(pc'[p] = "idle" /\ UNCHANGED Db))
                  /\ (pc[p] = "co_write" /\ C26_Checkout(p, m, b)) =>
                        /\ C26_CanCheckout(q, m, b)
                        /\ ~ENABLED (/\ CoWrite(p)
                                     /\ ~(Responds(p, "ok") /\ C4_Success(p)))

\* a member who already holds the book asks for it again while a copy is on
\* the shelf: only has_active_loan stands between the request and a loan
C26_Witness ==
    \E p \in Procs :
        /\ pc[p] = "co_lock" /\ tx[p].op = "checkout"
        /\ books[tx[p].book].live /\ books[tx[p].book].avail > 0
        /\ HasActiveLoan(loans, tx[p].member, tx[p].book)

\* C27: no interleaving of checkout and return transactions deadlocks. A
\* checkout waits only for the book row; a return takes the loan row and
\* then the book row; whoever holds the book row waits for nothing. So in
\* every state with a transaction in flight some transaction can take its
\* next step, and with fair scheduling every started checkout or return
\* eventually commits or is rejected.
C27_InFlight(p) == pc[p] \in (CheckoutPcs \cup ReturnPcs)

C27_CanStep(p) ==
    ENABLED (CoLock(p) \/ CoWrite(p) \/ RtLockLoan(p) \/ RtLockBook(p) \/ RtWrite(p))

C27_NoDeadlock ==
    /\ []((\E p \in Procs : C27_InFlight(p)) => (\E p \in Procs : C27_CanStep(p)))
    /\ [](\A p \in Procs :
            (pc[p] \in BookLockPcs) => C27_CanStep(p))
    /\ \A p \in Procs : C27_InFlight(p) ~> (pc[p] = "idle")

\* a checkout waits for the book row while a return holds it (and the loan row)
C27_Witness ==
    \E p \in Procs, q \in Procs :
        /\ pc[p] = "co_lock" /\ pc[q] = "rt_write"
        /\ tx[p].book = tx[q].book

====
